---- MODULE Spec2Model ----
(***************************************************************************)
(* Model of services/gcp_toolkit.py: the module-level initialisation of    *)
(* the Google Cloud Storage client, guess_content_type and upload_to_gcs.  *)
(*                                                                         *)
(* A path is a sequence of tokens: "/" (os.sep), "." (os.extsep) or a word *)
(* that contains neither.  The storage backend is external: every backend  *)
(* call either succeeds or raises one of a few errors, chosen freely.      *)
(***************************************************************************)
EXTENDS Integers, Sequences, FiniteSets, TLC

VARIABLES
    env_GCP_SA_CREDENTIALS, \* os.environ: the credential blob, None when unset
    env_GCP_BUCKET_NAME,    \* os.environ: the bucket name, None when unset
    pc,                     \* "import" before the module body ran, then "ready" ("crashed" if the import raised)
    GCP_BUCKET_NAME,        \* module global, line 31
    gcs_client,             \* module global, lines 33 and 57
    bucket_name_default,    \* default value of upload_to_gcs's bucket_name, bound when line 76 runs
    init_events,            \* what initialize_gcp_client did: library calls and log records, in order
    call,                   \* the last call made by the application
    events,                 \* what the last call did: log records and backend calls, in order, then its raise or return
    result,                 \* what the caller of the last call observed
    objects                 \* the backend: objects[b][k] is the object stored in bucket b under key k

vars == <<env_GCP_SA_CREDENTIALS, env_GCP_BUCKET_NAME, pc, GCP_BUCKET_NAME, gcs_client,
          bucket_name_default, init_events, call, events, result, objects>>

env == <<env_GCP_SA_CREDENTIALS, env_GCP_BUCKET_NAME>>

config == <<GCP_BUCKET_NAME, gcs_client, bucket_name_default, init_events>>

(***************************************************************************)
(* Bounds                                                                  *)
(***************************************************************************)
MaxGeneration == 2   \* the backend accepts at most this many writes of one key

(***************************************************************************)
(* Values                                                                  *)
(***************************************************************************)
None == "None"
Missing == "<no argument>"           \* the caller passed no bucket_name
TheClient == "storage.Client"        \* the handle storage.Client(...) returns
NoPath == <<>>
NoErr == "-"
ValueError_NotInitialized == "ValueError: GCS client is not initialized. Skipping file upload."

\* credential blobs the environment may hold
CredNotJson == "{not json"
CredNotAnObject == "[1, 2]"
CredBadKey == "{type: service_account, private_key: garbage}"
CredNoTransport == "{type: service_account, private_key: ok, project: unreachable}"
CredValid == "{type: service_account, private_key: ok, project: p}"
CredBlobs == {CredNotJson, CredNotAnObject, CredBadKey, CredNoTransport, CredValid}
CredEnv == {None, ""} \cup CredBlobs

Buckets == {"b1", "b2"}
BucketEnv == {None, "b1"}
BucketArgs == {Missing, "b2"}

\* what the backend does during one call: nothing goes wrong, or one call raises:
\* client.bucket rejects the name, or the transfer of upload_from_filename fails
Outcomes == {<<"none", "-">>, <<"bucket", "ValueError: bad bucket name">>,
             <<"transfer", "Forbidden">>, <<"transfer", "NotFound">>}

\* paths
P_tmp_report == <<"/", "tmp", "/", "report", ".", "pdf">>
P_data_report == <<"/", "data", "/", "report", ".", "pdf">>
P_unknown == <<"/", "tmp", "/", "data", ".", "unknownext">>
P_rel_report == <<"report", ".", "pdf">>
P_rel_unknown == <<"data", ".", "unknownext">>
P_upper == <<"/", "tmp", "/", "CLIP", ".", "MP4">>
P_targz == <<"backup", ".", "tar", ".", "gz">>
P_tgz == <<"backup", ".", "tgz">>
P_gz == <<"notes", ".", "gz">>
P_hidden == <<"/", "tmp", "/", ".", "pdf">>
P_dotdir == <<"/", "v", ".", "pdf", "/", "notes">>
P_noext == <<"/", "tmp", "/", "README">>
P_trailing == <<"/", "tmp", "/", "report", ".">>

UploadPaths == {P_tmp_report, P_data_report, P_unknown}
GuessPaths == UploadPaths \cup {P_rel_report, P_rel_unknown, P_upper, P_targz, P_tgz, P_gz,
                                P_hidden, P_dotdir, P_noext, P_trailing}
Keys == {<<"report", ".", "pdf">>, <<"data", ".", "unknownext">>}

(***************************************************************************)
(* Events: one record shape for library calls, log records, raise, return  *)
(***************************************************************************)
Ev(op, level, msg, bucket, key, ctype, err) ==
    [op |-> op, level |-> level, msg |-> msg, bucket |-> bucket, key |-> key,
     ctype |-> ctype, err |-> err]

Log(level, msg, key, ctype, err) == Ev("log", level, msg, None, key, ctype, err)
LibCall(op, err) == Ev(op, "-", "-", None, NoPath, None, err)
Raise(err) == Ev("raise", "-", "-", None, NoPath, None, err)
Return == Ev("return", "-", "-", None, NoPath, None, NoErr)

NoResult == [kind |-> "none", exc |-> NoErr, url |-> <<>>, ctype |-> None]
Raised(e) == [kind |-> "raise", exc |-> e, url |-> <<>>, ctype |-> None]
ReturnedUrl(u) == [kind |-> "return", exc |-> NoErr, url |-> u, ctype |-> None]
ReturnedType(t) == [kind |-> "return", exc |-> NoErr, url |-> <<>>, ctype |-> t]

(***************************************************************************)
(* initialize_gcp_client, lines 35-54                                      *)
(***************************************************************************)
\* json.loads: raises on text that is not JSON
json_loads(s) == IF s = CredNotJson THEN "JSONDecodeError" ELSE NoErr

\* service_account.Credentials.from_service_account_info: raises on anything
\* that is not a well-formed service-account key
from_service_account_info(s) ==
    IF s = CredNotAnObject THEN "AttributeError"
    ELSE IF s = CredBadKey THEN "ValueError: bad key material"
    ELSE NoErr

\* storage.Client(credentials=...): raises when the client cannot be constructed
storage_Client(s) == IF s = CredNoTransport THEN "TransportError" ELSE NoErr

\* a variant that lets the error escape instead of catching it
init_except_reraise(ev, e) == [client |-> None, raised |-> e, events |-> ev]

\* the except clause of lines 52-54: log the error, return None
init_except(ev, e) ==
    [client |-> None, raised |-> NoErr,
     events |-> ev \o <<Log("error", "Failed to initialize GCS client", NoPath, None, e)>>]

\* lines 45-54: parse the blob, build the credentials, construct the client
build_client(creds) ==
    LET e1 == json_loads(creds)
        e2 == from_service_account_info(creds)
        e3 == storage_Client(creds)
        c1 == <<LibCall("json.loads", e1)>>
        c2 == c1 \o <<LibCall("from_service_account_info", e2)>>
        c3 == c2 \o <<LibCall("storage.Client", e3)>>
    IN IF e1 # NoErr THEN init_except(c1, e1)
       ELSE IF e2 # NoErr THEN init_except(c2, e2)
       ELSE IF e3 # NoErr THEN init_except(c3, e3)
       ELSE [client |-> TheClient, raised |-> NoErr, events |-> c3]

\* a variant that falls back to the ambient default credentials when none are configured
initialize_gcp_client_fallback(creds) ==
    IF creds = None \/ creds = ""
    THEN [client |-> TheClient, raised |-> NoErr, events |-> <<LibCall("storage.Client", NoErr)>>]
    ELSE build_client(creds)

initialize_gcp_client(creds) ==
    IF creds = None \/ creds = ""
    THEN [client |-> None, raised |-> NoErr, events |-> <<>>]
    ELSE build_client(creds)

(***************************************************************************)
(* os.path.basename and mimetypes.guess_type, on token sequences           *)
(***************************************************************************)
\* str.rfind: the last index of token t in p, 0 when there is none
rfind(p, t) ==
    LET I == {i \in 1..Len(p) : p[i] = t}
    IN IF I = {} THEN 0 ELSE CHOOSE i \in I : \A j \in I : j <= i

\* a variant that keeps the directories
basename_fullpath(p) == p

\* os.path.basename, line 89: everything after the last separator
basename(p) == SubSeq(p, rfind(p, "/") + 1, Len(p))

\* posixpath.splitext: split at the last dot of the last component, leading dots
\* of that component not counting
splitext(p) ==
    LET sepIndex == rfind(p, "/")
        dotIndex == rfind(p, ".")
    IN IF dotIndex > sepIndex /\ \E i \in (sepIndex + 1)..(dotIndex - 1) : p[i] # "."
       THEN [base |-> SubSeq(p, 1, dotIndex - 1), ext |-> SubSeq(p, dotIndex, Len(p))]
       ELSE [base |-> p, ext |-> <<>>]

\* str.lower, on the words the paths use
LowerTok(t) == IF t = "MP4" THEN "mp4" ELSE IF t = "CLIP" THEN "clip" ELSE t
lower(s) == [i \in 1..Len(s) |-> LowerTok(s[i])]

\* mimetypes.suffix_map, encodings_map, types_map (the entries the paths can hit)
suffix_map(ext) == IF ext = <<".", "tgz">> THEN <<".", "tar", ".", "gz">> ELSE <<>>
encodings_map(ext) == IF ext = <<".", "gz">> THEN "gzip" ELSE None
types_map(ext) ==
    IF ext = <<".", "pdf">> THEN "application/pdf"
    ELSE IF ext = <<".", "mp4">> THEN "video/mp4"
    ELSE IF ext = <<".", "tar">> THEN "application/x-tar"
    ELSE None

RECURSIVE expand_suffix(_)
expand_suffix(s) ==
    IF suffix_map(lower(s.ext)) # <<>>
    THEN expand_suffix(splitext(s.base \o suffix_map(lower(s.ext))))
    ELSE s

\* mimetypes.guess_type(file_path)[0]
guess_type(p) ==
    LET s1 == expand_suffix(splitext(p))
        s2 == IF encodings_map(s1.ext) # None THEN splitext(s1.base) ELSE s1
    IN types_map(lower(s2.ext))

(***************************************************************************)
(* guess_content_type, lines 59-74                                         *)
(***************************************************************************)
\* a variant that substitutes the generic binary type for an unknown one
guess_content_type_generic(file_path) ==
    LET content_type == guess_type(file_path)
    IN [value |-> IF content_type = None THEN "application/octet-stream" ELSE content_type,
        events |-> IF content_type = None
                   THEN <<Log("warning", "Could not determine content type", file_path, None, NoErr)>>
                   ELSE <<>>]

guess_content_type(file_path) ==
    LET content_type == guess_type(file_path)
    IN [value |-> content_type,
        events |-> IF content_type = None
                   THEN <<Log("warning", "Could not determine content type", file_path, None, NoErr)>>
                   ELSE <<>>]

(***************************************************************************)
(* upload_to_gcs, lines 76-100                                             *)
(***************************************************************************)
\* a variant that ignores the caller's argument
resolve_bucket_name_configured(arg, default) == default

\* line 76: the bucket the call addresses, given the argument the caller passed
resolve_bucket_name(arg, default) == IF arg = Missing THEN default ELSE arg

\* a variant that always sets a content type
blob_content_type_always(content_type) ==
    IF content_type # None THEN content_type ELSE "application/octet-stream"

\* lines 92-93: the content type the blob carries
blob_content_type(content_type) == IF content_type # None THEN content_type ELSE None

\* blob.public_url
public_url(bucket, key) == <<bucket, key>>

\* a variant that raises a new error in place of the backend's
upload_except_wrapped(ev, e, objs) ==
    [events |-> ev \o <<Log("error", "Error uploading file to GCS", NoPath, None, e),
                        Raise("RuntimeError: upload failed")>>,
     result |-> Raised("RuntimeError: upload failed"),
     objects |-> objs]

\* a variant that re-raises without logging
upload_except_silent(ev, e, objs) ==
    [events |-> ev \o <<Raise(e)>>, result |-> Raised(e), objects |-> objs]

\* lines 98-100: log the error, re-raise it
upload_except(ev, e, objs) ==
    [events |-> ev \o <<Log("error", "Error uploading file to GCS", NoPath, None, e), Raise(e)>>,
     result |-> Raised(e),
     objects |-> objs]

\* the backend's side of blob.upload_from_filename: the object is (over)written
stored(objs, bucket, key, src, ctype) ==
    IF bucket \in DOMAIN objs /\ key \in DOMAIN objs[bucket]
    THEN [objs EXCEPT ![bucket][key] =
              [src |-> src, ctype |-> ctype, generation |-> @.generation + 1]]
    ELSE objs

\* lines 80-97, with the backend raising err at call `fail`
upload_try(file_path, bucket_name, fail, err, objs) ==
    LET g == guess_content_type(file_path)
        content_type == g.value
        key == basename(file_path)
        ct == blob_content_type(content_type)
        pre == g.events
               \o <<Log("info", "Uploading file to Google Cloud Storage", file_path, None, NoErr)>>
               \o (IF content_type # None
                   THEN <<Log("info", "Using content type", NoPath, content_type, NoErr)>>
                   ELSE <<>>)
        eBucket(e) == Ev("bucket", "-", "-", bucket_name, NoPath, None, e)
        eBlob == Ev("blob", "-", "-", bucket_name, key, None, NoErr)
        eUpload(e) == Ev("upload_from_filename", "-", file_path, bucket_name, key, ct, e)
    IN IF fail = "bucket" THEN upload_except(pre \o <<eBucket(err)>>, err, objs)
       ELSE IF fail = "transfer"
       THEN upload_except(pre \o <<eBucket(NoErr), eBlob, eUpload(err)>>, err, objs)
       ELSE [events |-> pre \o <<eBucket(NoErr), eBlob, eUpload(NoErr),
                                 Log("info", "File uploaded successfully to GCS", key, None, NoErr),
                                 Return>>,
             result |-> ReturnedUrl(public_url(bucket_name, key)),
             objects |-> stored(objs, bucket_name, key, file_path, ct)]

\* a variant that skips the upload of a disabled gateway instead of raising
upload_to_gcs_skip(client, file_path, bucket_name, fail, err, objs) ==
    IF client = None
    THEN [events |-> <<Log("warning", "GCS client is not initialized", NoPath, None, NoErr),
                       Return>>,
          result |-> ReturnedUrl(<<>>),
          objects |-> objs]
    ELSE upload_try(file_path, bucket_name, fail, err, objs)

upload_to_gcs(client, file_path, bucket_name, fail, err, objs) ==
    IF client = None
    THEN [events |-> <<Raise(ValueError_NotInitialized)>>,
          result |-> Raised(ValueError_NotInitialized),
          objects |-> objs]
    ELSE upload_try(file_path, bucket_name, fail, err, objs)

(***************************************************************************)
(* The state machine                                                       *)
(***************************************************************************)
NoCall == [fn |-> "none", file_path |-> NoPath, bucket_arg |-> Missing, fail |-> "none"]
NoObject == [src |-> NoPath, ctype |-> None, generation |-> 0]

Init ==
    /\ env_GCP_SA_CREDENTIALS \in CredEnv
    /\ env_GCP_BUCKET_NAME \in BucketEnv
    /\ pc = "import"
    /\ GCP_BUCKET_NAME = None
    /\ gcs_client = None
    /\ bucket_name_default = None
    /\ init_events = <<>>
    /\ call = NoCall
    /\ events = <<>>
    /\ result = NoResult
    /\ objects = [b \in Buckets |-> [k \in Keys |-> NoObject]]

\* the module body, lines 31-57 and the def of line 76
ModuleInit ==
    /\ pc = "import"
    /\ LET r == initialize_gcp_client(env_GCP_SA_CREDENTIALS)
       IN /\ GCP_BUCKET_NAME' = env_GCP_BUCKET_NAME
          /\ gcs_client' = r.client
          /\ init_events' = r.events
          /\ pc' = IF r.raised = NoErr THEN "ready" ELSE "crashed"
          /\ bucket_name_default' = IF r.raised = NoErr THEN env_GCP_BUCKET_NAME ELSE None
    /\ UNCHANGED <<env, call, events, result, objects>>

\* the application calls guess_content_type(file_path)
GuessContentType ==
    /\ pc = "ready"
    /\ \E p \in GuessPaths :
         LET g == guess_content_type(p)
         IN /\ call' = [fn |-> "guess_content_type", file_path |-> p, bucket_arg |-> Missing,
                        fail |-> "none"]
            /\ events' = g.events \o <<Return>>
            /\ result' = ReturnedType(g.value)
    /\ UNCHANGED <<env, config, pc, objects>>

\* what a call of upload_to_gcs does to the call record, the events, the result and the backend
UploadCall ==
    /\ pc = "ready"
    /\ \E p \in UploadPaths, arg \in BucketArgs, o \in Outcomes :
         LET bucket_name == resolve_bucket_name(arg, bucket_name_default)
             key == basename(p)
             fail == IF gcs_client = None THEN "none" ELSE o[1]
             out == upload_to_gcs(gcs_client, p, bucket_name, o[1], o[2], objects)
         IN \* a disabled gateway never reaches the backend: one outcome is enough
            /\ gcs_client = None => o[1] = "none"
            \* the backend stores only into a bucket that exists, under a key it can hold
            /\ (gcs_client # None /\ o[1] = "none") =>
                   /\ bucket_name \in Buckets
                   /\ key \in Keys
                   /\ objects[bucket_name][key].generation < MaxGeneration
            /\ call' = [fn |-> "upload_to_gcs", file_path |-> p, bucket_arg |-> arg,
                        fail |-> fail]
            /\ events' = out.events
            /\ result' = out.result
            /\ objects' = out.objects

\* a variant that authenticates again, from the current environment, when the gateway is disabled
UploadToGcs_reauthenticate ==
    /\ UploadCall
    /\ gcs_client' = IF gcs_client = None
                     THEN initialize_gcp_client(env_GCP_SA_CREDENTIALS).client
                     ELSE gcs_client
    /\ UNCHANGED <<env, GCP_BUCKET_NAME, bucket_name_default, init_events, pc>>

\* the application calls upload_to_gcs(file_path[, bucket_name])
UploadToGcs ==
    /\ UploadCall
    /\ UNCHANGED <<env, config, pc>>

\* the process environment changes after the module was imported
SetEnv ==
    /\ pc = "ready"
    /\ \E e \in {<<None, None>>, <<CredValid, "b2">>} :
         /\ e # env
         /\ env_GCP_SA_CREDENTIALS' = e[1]
         /\ env_GCP_BUCKET_NAME' = e[2]
    /\ UNCHANGED <<config, pc, call, events, result, objects>>

Next == ModuleInit \/ GuessContentType \/ UploadToGcs \/ SetEnv

Spec == Init /\ [][Next]_vars

(***************************************************************************)
(* Vocabulary of the properties                                            *)
(***************************************************************************)
IsUpload == call.fn = "upload_to_gcs"
IsGuess == call.fn = "guess_content_type"
Enabled == gcs_client # None
Disabled == gcs_client = None

Idx(ev, ops) == {i \in 1..Len(ev) : ev[i].op \in ops}
BackendIdx(ev) == Idx(ev, {"bucket", "blob", "upload_from_filename"})
TransferIdx(ev) == Idx(ev, {"upload_from_filename"})
FailedIdx(ev) == {i \in 1..Len(ev) : ev[i].op \notin {"log", "raise", "return"} /\ ev[i].err # NoErr}
LogIdx(ev, level) == {i \in Idx(ev, {"log"}) : ev[i].level = level}

\* the failure of event i is logged as an error after it and before position n
LoggedBefore(ev, i, n) ==
    \E j \in LogIdx(ev, "error") : i < j /\ j < n /\ ev[j].err = ev[i].err

\* k is the last component of p: a suffix of p without separator, preceded by one
IsBaseNameOf(k, p) ==
    /\ Len(k) <= Len(p)
    /\ k = SubSeq(p, Len(p) - Len(k) + 1, Len(p))
    /\ \A i \in 1..Len(k) : k[i] # "/"
    /\ Len(k) = Len(p) \/ p[Len(p) - Len(k)] = "/"

\* the extension table, by the word after the dot
TableType(w) ==
    CASE w \in {"pdf"} -> "application/pdf"
      [] w \in {"mp4", "MP4"} -> "video/mp4"
      [] w \in {"tar"} -> "application/x-tar"
      [] OTHER -> None

\* p ends in name "." word
HasPlainExtension(p) ==
    /\ Len(p) >= 3
    /\ p[Len(p) - 1] = "."
    /\ p[Len(p) - 2] \notin {"/", "."}
    /\ p[Len(p)] \notin {"/", "."}

\* the type of a path whose extension is in the table, None for the others
ExpectedType(p) == IF HasPlainExtension(p) THEN TableType(p[Len(p)]) ELSE None

\* the bucket a call is to address
ExpectedBucket == IF call.bucket_arg # Missing THEN call.bucket_arg ELSE GCP_BUCKET_NAME

(***************************************************************************)
(* C1: while the gateway is disabled, every upload_to_gcs call raises the  *)
(* "client is not initialized" error and makes no backend call: no bucket  *)
(* lookup, no blob, no transfer, and nothing is stored.                    *)
(***************************************************************************)
Thm_C1_DisabledUploadRaises ==
    (IsUpload /\ Disabled) =>
        /\ result = Raised(ValueError_NotInitialized)
        /\ BackendIdx(events) = {}
        /\ \A b \in Buckets, k \in Keys : objects[b][k] = NoObject

Wit_C1_DisabledUploadWithBucket ==
    IsUpload /\ Disabled /\ call.bucket_arg = "b2" /\ call.file_path = P_tmp_report
    /\ result.kind = "raise"

(***************************************************************************)
(* C2: on an enabled gateway, when a backend call fails, the caller gets   *)
(* that very error, it is logged before it is raised, no URL is returned,  *)
(* and the transfer is attempted once when it is the transfer that failed  *)
(* (never twice).                                                          *)
(***************************************************************************)
Thm_C2_BackendErrorPropagates ==
    (IsUpload /\ Enabled /\ call.fail # "none") =>
        /\ Cardinality(FailedIdx(events)) = 1
        /\ \A i \in FailedIdx(events) :
              /\ result = Raised(events[i].err)
              /\ events[Len(events)] = Raise(events[i].err)
              /\ LoggedBefore(events, i, Len(events))
        /\ Idx(events, {"return"}) = {}
        /\ Cardinality(TransferIdx(events)) = (IF call.fail = "transfer" THEN 1 ELSE 0)

Wit_C2_TransferForbidden ==
    IsUpload /\ Enabled /\ call.fail = "transfer" /\ result.exc = "Forbidden"

(***************************************************************************)
(* C3: when the credential variable is unset or empty, the module          *)
(* initialisation does not raise, constructs no client and leaves the      *)
(* gateway disabled.                                                       *)
(***************************************************************************)
Thm_C3_AbsentCredentialsDisable ==
    [][(pc = "import" /\ env_GCP_SA_CREDENTIALS \in {None, ""}) =>
          /\ pc' = "ready"
          /\ gcs_client' = None
          /\ Idx(init_events', {"storage.Client"}) = {}]_vars

Wit_C3_EmptyCredentials ==
    pc = "ready" /\ env_GCP_SA_CREDENTIALS = "" /\ Disabled /\ init_events = <<>>

(***************************************************************************)
(* C4: when the credential blob is present but malformed (the JSON does    *)
(* not parse, or the credentials or the client cannot be constructed), the *)
(* module initialisation does not raise, logs the error and leaves the     *)
(* gateway disabled.                                                       *)
(***************************************************************************)
Thm_C4_MalformedCredentialsDisable ==
    [][(pc = "import" /\ env_GCP_SA_CREDENTIALS \in CredBlobs \ {CredValid}) =>
          /\ pc' = "ready"
          /\ gcs_client' = None
          /\ Cardinality(FailedIdx(init_events')) = 1
          /\ \A i \in FailedIdx(init_events') :
                LoggedBefore(init_events', i, Len(init_events') + 1)]_vars

Wit_C4_BadKeyMaterial ==
    pc = "ready" /\ env_GCP_SA_CREDENTIALS = CredBadKey /\ Disabled
    /\ LogIdx(init_events, "error") # {}

(***************************************************************************)
(* C5: once the module is imported, no call changes the client handle or   *)
(* the default bucket, whatever happens to the environment: an absent      *)
(* handle stays absent, so every later upload raises, and a present handle *)
(* stays the same handle.                                                  *)
(***************************************************************************)
Thm_C5_HandleNeverChanges ==
    [][pc = "ready" =>
          /\ pc' = "ready"
          /\ gcs_client' = gcs_client
          /\ GCP_BUCKET_NAME' = GCP_BUCKET_NAME
          /\ bucket_name_default' = bucket_name_default
          /\ (gcs_client = None /\ call'.fn = "upload_to_gcs") => result'.kind = "raise"]_vars

Wit_C5_DisabledDespiteNewCredentials ==
    pc = "ready" /\ Disabled /\ env_GCP_SA_CREDENTIALS = CredValid
    /\ IsUpload /\ result.kind = "raise"

(***************************************************************************)
(* C6: failures are logged before they are handled.                        *)
(***************************************************************************)
\* a failure at startup is logged, and the gateway is disabled
StartupFailureLogged ==
    \A i \in FailedIdx(init_events) :
        LoggedBefore(init_events, i, Len(init_events) + 1) /\ Disabled

\* an upload that raises has logged the error it raises, before raising it
RaiseIsLogged ==
    /\ Len(events) >= 2
    /\ events[Len(events)] = Raise(result.exc)
    /\ events[Len(events) - 1].op = "log"
    /\ events[Len(events) - 1].level = "error"
    /\ events[Len(events) - 1].err = result.exc

\* a call that returns has swallowed no failure; all it may have met is an unknown content type
OnlyUnknownTypeTolerated ==
    result.kind = "return" =>
        /\ FailedIdx(events) = {}
        /\ LogIdx(events, "error") = {}
        /\ \A i \in LogIdx(events, "warning") :
              events[i].msg = "Could not determine content type"

\* C6 as stated: every failure is logged before it is handled, the call made
\* while the gateway is disabled included.
Orig_C6_EveryFailureLogged ==
    /\ StartupFailureLogged
    /\ (IsUpload /\ result.kind = "raise") => RaiseIsLogged
    /\ OnlyUnknownTypeTolerated

\* C6, amended: a startup failure is logged and turned into the disabled state;
\* a failure inside an upload on an enabled gateway is logged and then re-raised;
\* the call made while the gateway is disabled raises without logging anything;
\* nothing but the unknown content type is tolerated without a raise.
Thm_C6_FailuresLoggedExceptDisabledCall ==
    /\ StartupFailureLogged
    /\ (IsUpload /\ Enabled /\ result.kind = "raise") => RaiseIsLogged
    /\ (IsUpload /\ Disabled) => events = <<Raise(ValueError_NotInitialized)>>
    /\ OnlyUnknownTypeTolerated

Wit_C6_StartupLoggedDisabledCallNot ==
    /\ IsUpload /\ Disabled
    /\ events = <<Raise(ValueError_NotInitialized)>>
    /\ FailedIdx(init_events) # {}
    /\ LogIdx(init_events, "error") # {}

(***************************************************************************)
(* C7: on an enabled gateway, an upload given a bucket argument addresses  *)
(* that bucket, not the configured default; an upload given none addresses *)
(* the default bucket read from the environment when the module was        *)
(* imported.                                                               *)
(***************************************************************************)
Inv_C7_AddressedBucket ==
    (IsUpload /\ Enabled) =>
        /\ BackendIdx(events) # {}
        /\ \A i \in BackendIdx(events) : events[i].bucket = ExpectedBucket
        /\ result.kind = "return" =>
              /\ result.url[1] = ExpectedBucket
              /\ objects[ExpectedBucket][result.url[2]].src = call.file_path

Thm_C7_BucketArgumentOverridesDefault ==
    /\ []Inv_C7_AddressedBucket
    /\ [][pc = "import" => GCP_BUCKET_NAME' = env_GCP_BUCKET_NAME]_vars

Wit_C7_ExplicitBucketNotDefault ==
    IsUpload /\ Enabled /\ call.bucket_arg = "b2" /\ GCP_BUCKET_NAME = "b1"
    /\ result.kind = "return" /\ result.url[1] = "b2"

(***************************************************************************)
(* C8: the remote key is the base name of the local path: uploads of the   *)
(* same path, or of paths in different directories with the same base      *)
(* name, target the same key of the bucket, and a successful upload        *)
(* replaces what the key held (last write wins) without an error.          *)
(***************************************************************************)
Thm_C8_KeyIsBaseName ==
    /\ (IsUpload /\ Enabled) =>
          /\ \A i \in Idx(events, {"blob", "upload_from_filename"}) :
                /\ IsBaseNameOf(events[i].key, call.file_path)
                /\ call.file_path \in {P_tmp_report, P_data_report} =>
                      events[i].key = <<"report", ".", "pdf">>
          /\ (call.fail = "none" \/ call.fail = "transfer") =>
                Idx(events, {"blob"}) # {}
          /\ call.fail = "none" =>
                /\ result.kind = "return"
                /\ IsBaseNameOf(result.url[2], call.file_path)
                /\ objects[result.url[1]][result.url[2]].src = call.file_path
                /\ objects[result.url[1]][result.url[2]].generation >= 1
    /\ \A b \in Buckets, k \in Keys :
          objects[b][k].generation > 0 => IsBaseNameOf(k, objects[b][k].src)

Wit_C8_OverwrittenByOtherDirectory ==
    /\ IsUpload /\ Enabled /\ result.kind = "return"
    /\ call.file_path = P_data_report
    /\ objects["b1"][<<"report", ".", "pdf">>].generation = 2
    /\ objects["b1"][<<"report", ".", "pdf">>].src = P_data_report

(***************************************************************************)
(* C9: guess_content_type always returns: the table's type, without a      *)
(* warning, for a path whose extension is in the table (application/pdf    *)
(* for report.pdf); None, with a warning, for a path with no recognised    *)
(* extension (data.unknownext).                                            *)
(***************************************************************************)
Thm_C9_GuessContentType ==
    IsGuess =>
        /\ result.kind = "return"
        /\ events[Len(events)] = Return
        /\ ExpectedType(call.file_path) # None =>
              result.ctype = ExpectedType(call.file_path)
        /\ call.file_path \in {P_rel_report, P_tmp_report, P_data_report} =>
              result.ctype = "application/pdf"
        /\ call.file_path \in {P_rel_unknown, P_unknown, P_noext} => result.ctype = None
        /\ (result.ctype = None) <=> (LogIdx(events, "warning") # {})
        /\ \A i \in LogIdx(events, "warning") : events[i].key = call.file_path

Wit_C9_UnknownExtensionWarns ==
    IsGuess /\ call.file_path = P_rel_unknown /\ result.ctype = None
    /\ LogIdx(events, "warning") # {}

(***************************************************************************)
(* C10: on an enabled gateway, an upload resolves the content type before  *)
(* any backend call; the object carries the inferred type when there is    *)
(* one and no content type when there is none, and in that case the upload *)
(* still goes on to the transfer and returns the public URL when the       *)
(* backend succeeds.                                                       *)
(***************************************************************************)
\* event i shows that the content type of the call's path was resolved
ShowsResolution(i) ==
    \/ events[i] = Log("info", "Using content type", NoPath, ExpectedType(call.file_path), NoErr)
       /\ ExpectedType(call.file_path) # None
    \/ events[i] = Log("warning", "Could not determine content type", call.file_path, None, NoErr)
       /\ ExpectedType(call.file_path) = None

Thm_C10_ContentTypeOnBlob ==
    (IsUpload /\ Enabled) =>
        /\ \E i \in 1..Len(events) :
              ShowsResolution(i) /\ \A j \in BackendIdx(events) : i < j
        /\ \A i \in TransferIdx(events) : events[i].ctype = ExpectedType(call.file_path)
        /\ call.fail = "none" =>
              /\ Cardinality(TransferIdx(events)) = 1
              /\ result.kind = "return"
              /\ result.url = <<ExpectedBucket, events[CHOOSE i \in TransferIdx(events) : TRUE].key>>
              /\ objects[result.url[1]][result.url[2]].ctype = ExpectedType(call.file_path)

Wit_C10_UnknownTypeStillUploaded ==
    IsUpload /\ Enabled /\ call.file_path = P_unknown /\ call.fail = "none"
    /\ result.kind = "return" /\ TransferIdx(events) # {}

====
